---- MODULE Spec2Model ----
(***************************************************************************)
(* Model of the ESP32 thermostat sketch sketch_nov13a.ino.                 *)
(*                                                                         *)
(* Temperatures, setpoint and hysteresis are fixed-point numbers in        *)
(* hundredths of a degree Celsius (21.0 C = 2100).  Time is counted in     *)
(* ticks; the sketch's millisecond constants are scaled down to ticks and  *)
(* keep their order (DEBOUNCE_MS < TEMP_INTERVAL < LONG_PRESS_MS <         *)
(* TIMEOUT_MS < AWAKE_DURATION_MS).  The history capacity NUM_POINTS is    *)
(* scaled down from 120 as well.                                           *)
(***************************************************************************)
EXTENDS Integers, Sequences, FiniteSets, TLC

\* ---------------------------------------------------------------- bounds
\* const int NUM_POINTS = 120 (line 65), scaled.
NUM_POINTS == 3
\* #define DEBOUNCE_MS 150 (line 27), in ticks.
DEBOUNCE_MS == 3
\* #define TEMP_INTERVAL 1000 (line 26), in ticks.
TEMP_INTERVAL == 4
\* LONG_PRESS_MS = 10000 (line 29), in ticks.
LONG_PRESS_MS == 5
\* TIMEOUT_MS = 20000 (line 455), in ticks.
TIMEOUT_MS == 6
\* AWAKE_DURATION_MS = 60000 (line 30), in ticks.
AWAKE_DURATION_MS == 7
\* Largest number of ticks between the starts of two loop iterations.
MaxStep == 2
\* The model stops a boot once it has been awake this long past the timeout.
MaxAwake == AWAKE_DURATION_MS + 2

\* ------------------------------------------------------------- constants
\* float NAN: the "missing" sample.  No temperature of the model equals it.
NAN == -100000
\* enum HeatState { COOLING, ONTARGET, HEATING } (line 54).
COOLING == 0
ONTARGET == 1
HEATING == 2
\* setpoint += 0.5 / -= 0.5 (lines 583, 592).
SP_STEP == 50
\* if (hysteresis < 0.1) hysteresis = 0.1 (line 379).
HYST_MIN == 10
\* double setpoint = 21.0; double hysteresis = 0.5 (lines 45, 46).
SETPOINT_DEFAULT == 2100
HYSTERESIS_DEFAULT == 50
\* delay(200) at the top of setup() (line 508): longer than the debounce time.
SETUP_DELAY == DEBOUNCE_MS + 1

\* ------------------------------------------------- environment input sets
\* What the sensor may return in the running system.
SensorTemps == {NAN, 2060, 2130}
\* Button presses are offered only while the setpoint stays in this range.
SpMin == SETPOINT_DEFAULT - SP_STEP
SpMax == SETPOINT_DEFAULT + SP_STEP
\* HTTP requests the model sends: path, method and the arguments read.
Req(path, method, hasSp, sp, hasH, h, ssid) ==
    [path |-> path, method |-> method, hasSp |-> hasSp, sp |-> sp,
     hasH |-> hasH, h |-> h, ssid |-> ssid]
NoRequest == Req("none", "GET", FALSE, 0, FALSE, 0, "")
SetRequests ==
    { Req("/set", "GET", TRUE, SETPOINT_DEFAULT, FALSE, 0, ""),
      Req("/set", "GET", FALSE, 0, TRUE, 0, ""),
      Req("/set", "GET", FALSE, 0, TRUE, HYSTERESIS_DEFAULT, ""),
      Req("/set", "GET", TRUE, SETPOINT_DEFAULT, TRUE, 5, ""),
      Req("/set", "GET", FALSE, 0, FALSE, 0, "") }
SaveRequests ==
    { Req("/save", "POST", FALSE, 0, FALSE, 0, ""),
      Req("/save", "POST", FALSE, 0, FALSE, 0, "home"),
      Req("/save", "GET", FALSE, 0, FALSE, 0, "home") }
Requests == {NoRequest} \cup SetRequests \cup SaveRequests

\* ------------------------------------------------------------------ state
VARIABLES
    env,            \* what the environment may do in this run: the sets the inputs
                    \* are drawn from; it never changes
    pc,             \* position: boot, modeselect, hung, loop, wake, buttons,
                    \*           sample, decide, sleepcheck, asleep
    millis,         \* millis(): ticks since this boot
    now,            \* loop()'s local now
    prefs,          \* the Preferences store "thermo": key -> value, persistent
    routes,         \* WebServer handler chain: sequence of <<path, method, handler>>
    wifiConnected,  \* WiFi.status() == WL_CONNECTED
    wifiSsid, apMode,
    setpoint, hysteresis, lastTempRead, currentTemp,
    upPressed, downPressed, lastUpPress, lastDownPress,
    state, wakeBtnLast, wakePressStart, awakeStart,
    tempHistory, tempIndex, bufferFilled,
    \* history variables, used only to state properties
    fifo,           \* the last NUM_POINTS samples appended, oldest first
    nAppends,       \* number of appends since the history was empty, up to 2*NUM_POINTS
    snap,           \* history as it was in RAM when the last restart happened
    joinAttempts,   \* WiFi.begin() calls in this boot
    wakeHeldSince,  \* now of the poll that first saw the current hold of BTN_WAKE, or -1
    holdFired,      \* the current hold of BTN_WAKE already switched the mode
    pair            \* per adjustment button: the rising edges and events of a press pair

ramVars == <<wifiSsid, apMode, setpoint, hysteresis, lastTempRead, currentTemp,
             upPressed, downPressed, lastUpPress, lastDownPress, state, wakeBtnLast,
             wakePressStart, awakeStart, tempHistory, tempIndex, bufferFilled>>
histVars == <<tempHistory, tempIndex, bufferFilled>>
envVars == <<millis, now, routes, wifiConnected>>
ghostVars == <<fifo, nAppends, snap, joinAttempts, wakeHeldSince, holdFired, pair>>
vars == <<env, pc, prefs, envVars, ramVars, ghostVars>>

\* ------------------------------------------------------ Preferences store
EmptyPrefs == [k \in {} |-> 0]
Has(p, k) == k \in DOMAIN p
Get(p, k, default) == IF Has(p, k) THEN p[k] ELSE default
Put(p, k, v) == [x \in (DOMAIN p) \cup {k} |-> IF x = k THEN v ELSE p[x]]
\* prefs.getBytesLength("temps"): bytes of the stored blob, 0 when absent.
getBytesLength(p) == IF Has(p, "temps") THEN 4 * Cardinality(DOMAIN p["temps"]) ELSE 0
sizeofTempHistory == 4 * NUM_POINTS

\* ---------------------------------------------------------- pure helpers
isnan(t) == t = NAN

\* decideState(t, sp, hyst): half = hyst / 2.0 is kept exact by comparing
\* the doubled quantities.
decideState_inclusive(t, sp, hyst) ==
    IF isnan(t) THEN ONTARGET
    ELSE IF 2 * t <= 2 * sp - hyst THEN HEATING
    ELSE IF 2 * t >= 2 * sp + hyst THEN COOLING
    ELSE ONTARGET

decideState_fullband(t, sp, hyst) ==
    IF isnan(t) THEN ONTARGET
    ELSE IF t < sp - hyst THEN HEATING
    ELSE IF t > sp + hyst THEN COOLING
    ELSE ONTARGET

decideState(t, sp, hyst) ==
    IF isnan(t) THEN ONTARGET
    ELSE IF 2 * t < 2 * sp - hyst THEN HEATING
    ELSE IF 2 * t > 2 * sp + hyst THEN COOLING
    ELSE ONTARGET

\* saveHistoryToPrefs(): three writes into the store.
saveHistoryToPrefs_noIndex(p, hist, idx, filled) ==
    Put(Put(p, "temps", hist), "tFull", filled)

saveHistoryToPrefs(p, hist, idx, filled) ==
    Put(Put(Put(p, "temps", hist), "tIndex", idx), "tFull", filled)

\* loadHistoryFromPrefs(): the history RAM after the call.
loadHistoryFromPrefs_atLeast(p) ==
    IF getBytesLength(p) >= sizeofTempHistory
    THEN LET idx == Get(p, "tIndex", 0)
             full == Get(p, "tFull", FALSE)
             bad == idx < 0 \/ idx > NUM_POINTS
         IN  [hist |-> [i \in 0..(NUM_POINTS - 1) |-> p["temps"][i]],
              idx |-> IF bad THEN 0 ELSE idx,
              filled |-> IF bad THEN FALSE ELSE full]
    ELSE [hist |-> [i \in 0..(NUM_POINTS - 1) |-> NAN], idx |-> 0, filled |-> FALSE]

loadHistoryFromPrefs(p) ==
    IF getBytesLength(p) = sizeofTempHistory
    THEN LET idx == Get(p, "tIndex", 0)
             full == Get(p, "tFull", FALSE)
             bad == idx < 0 \/ idx > NUM_POINTS
         IN  [hist |-> p["temps"],
              idx |-> IF bad THEN 0 ELSE idx,
              filled |-> IF bad THEN FALSE ELSE full]
    ELSE [hist |-> [i \in 0..(NUM_POINTS - 1) |-> NAN], idx |-> 0, filled |-> FALSE]

\* addTemperature(t) without the trailing save: the history RAM after it.
addTemperature_lateWrap(hist, idx, filled, t) ==
    LET h2 == [hist EXCEPT ![idx] = t]
        i2 == idx + 1
    IN  IF i2 >= NUM_POINTS
        THEN [hist |-> h2, idx |-> 0, filled |-> filled]
        ELSE [hist |-> h2, idx |-> i2, filled |-> filled]

addTemperature(hist, idx, filled, t) ==
    LET h2 == [hist EXCEPT ![idx] = t]
        i2 == idx + 1
    IN  IF i2 >= NUM_POINTS
        THEN [hist |-> h2, idx |-> 0, filled |-> TRUE]
        ELSE [hist |-> h2, idx |-> i2, filled |-> filled]

\* handleData(), lines 342-359: the slots the status response reads, in the
\* order it emits them (their formatting as text is left out).
handleDataTemps(hist, idx, filled) ==
    LET count == IF filled THEN NUM_POINTS ELSE idx
    IN  [i \in 1..count |->
            hist[IF filled THEN (idx + (i - 1)) % NUM_POINTS ELSE i - 1]]

\* WebServer: the handler of the first route matching path and method.
RECURSIVE Dispatch(_, _)
Dispatch(rs, req) ==
    IF rs = <<>> THEN "handleNotFound"
    ELSE IF Head(rs)[1] = req.path /\ Head(rs)[2] \in {"ANY", req.method}
         THEN Head(rs)[3]
         ELSE Dispatch(Tail(rs), req)

ApRoutes == << <<"/", "ANY", "handleApRoot">>, <<"/save", "POST", "handleApSave">> >>
StaRoutes_withSave ==
    << <<"/", "ANY", "handleRoot">>, <<"/data", "ANY", "handleData">>,
       <<"/set", "ANY", "handleSet">>, <<"/save", "POST", "handleApSave">> >>

StaRoutes == << <<"/", "ANY", "handleRoot">>, <<"/data", "ANY", "handleData">>,
                <<"/set", "ANY", "handleSet">> >>

\* -------------------------------------------------------- small code steps
\* if (wakeNow && !wakeBtnLast) wakePressStart = now;  (lines 565-568)
wakePressStartNext_carry(wakeNow, last, nw, start) ==
    IF wakeNow /\ ~last /\ start = 0 THEN nw ELSE start

wakePressStartNext(wakeNow, last, nw, start) ==
    IF wakeNow /\ ~last THEN nw ELSE start

\* wakeNow && (now - wakePressStart >= LONG_PRESS_MS) && !apMode  (line 570)
longPress_strict(wakeNow, nw, start, ap) ==
    wakeNow /\ nw - start > LONG_PRESS_MS /\ ~ap

longPress(wakeNow, nw, start, ap) ==
    wakeNow /\ nw - start >= LONG_PRESS_MS /\ ~ap

\* upNow && !upPressed && (now - lastUpPress > DEBOUNCE_MS)  (lines 582, 591)
buttonFires(level, pressed, nw, last) ==
    level /\ ~pressed /\ nw - last > DEBOUNCE_MS

\* the pressed flag after the if / else if  (lines 582-589, 591-598)
pressedNext(level, pressed, fires) ==
    IF fires THEN TRUE ELSE IF ~level THEN FALSE ELSE pressed

\* handleSet(): setpoint and hysteresis after the request, and whether they
\* are written to the store  (lines 371-386)
handleSet_noClamp(req, sp, hyst) ==
    [sp |-> IF req.hasSp THEN req.sp ELSE sp,
     hyst |-> IF req.hasH THEN req.h ELSE hyst,
     changed |-> req.hasSp \/ req.hasH]

handleSet_saveOnSp(req, sp, hyst) ==
    [sp |-> IF req.hasSp THEN req.sp ELSE sp,
     hyst |-> IF req.hasH THEN (IF req.h < HYST_MIN THEN HYST_MIN ELSE req.h) ELSE hyst,
     changed |-> req.hasSp]

handleSet(req, sp, hyst) ==
    [sp |-> IF req.hasSp THEN req.sp ELSE sp,
     hyst |-> IF req.hasH THEN (IF req.h < HYST_MIN THEN HYST_MIN ELSE req.h) ELSE hyst,
     changed |-> req.hasSp \/ req.hasH]

\* setup(), lines 545-552: whether a join is attempted and the mode setup
\* ends in, from the stored ssid and the join's outcome.
bootMode_noFallback(ssid, joined) ==
    [attempt |-> TRUE, apMode |-> ssid = ""]

bootMode(ssid, joined) ==
    [attempt |-> ssid # "", apMode |-> IF ssid = "" THEN TRUE ELSE ~joined]

\* The parts of one loop() iteration in the order of its statements: request
\* handling (559-560), wake button (562-576), setpoint buttons (578-598),
\* temperature read (600-609), decision (611-616), sleep timeout (618-623).
after_decideFirst(step) ==
    CASE step = "loop" -> "wake"
      [] step = "wake" -> "buttons"
      [] step = "buttons" -> "decide"
      [] step = "decide" -> "sample"
      [] step = "sample" -> "sleepcheck"
      [] step = "sleepcheck" -> "loop"

after_sampleLast(step) ==
    CASE step = "loop" -> "wake"
      [] step = "wake" -> "buttons"
      [] step = "buttons" -> "decide"
      [] step = "decide" -> "sleepcheck"
      [] step = "sleepcheck" -> "sample"
      [] step = "sample" -> "loop"

after(step) ==
    CASE step = "loop" -> "wake"
      [] step = "wake" -> "buttons"
      [] step = "buttons" -> "sample"
      [] step = "sample" -> "decide"
      [] step = "decide" -> "sleepcheck"
      [] step = "sleepcheck" -> "loop"

\* the sampling condition of loop()  (line 601)
sampleDue_anyMode(ap, nw, last) == nw - last >= TEMP_INTERVAL

sampleDue(ap, nw, last) == ~ap /\ nw - last >= TEMP_INTERVAL

\* the sleep condition of loop()  (line 619)
sleepDue_anyMode(ap, nw, start) == nw - start > AWAKE_DURATION_MS

sleepDue(ap, nw, start) == ~ap /\ nw - start > AWAKE_DURATION_MS

\* ------------------------------------------------------- history variables
PairInit == [raw |-> FALSE, t1 |-> -1, close |-> FALSE, n |-> 0, missed |-> FALSE]
\* pr after a poll that read `level` and fired an adjust event iff `fired`.
\* t1: poll of the latest rising edge that fired an event; close: a second
\* rising edge came less than DEBOUNCE_MS after t1; n: adjust events since t1;
\* missed: a rising edge more than DEBOUNCE_MS after t1 fired no event.
PairNext(pr, level, fired, nw) ==
    IF level /\ ~pr.raw
    THEN IF fired
         THEN [raw |-> TRUE, t1 |-> nw, close |-> FALSE, n |-> 1, missed |-> pr.missed]
         ELSE IF pr.t1 >= 0 /\ ~pr.close /\ nw - pr.t1 < DEBOUNCE_MS
         THEN [pr EXCEPT !.raw = TRUE, !.close = TRUE]
         ELSE [raw |-> TRUE, t1 |-> -1, close |-> FALSE, n |-> 0,
               missed |-> pr.missed \/ (pr.t1 >= 0 /\ nw - pr.t1 > DEBOUNCE_MS)]
    ELSE [pr EXCEPT !.raw = level,
                    !.n = IF pr.t1 >= 0 /\ fired /\ pr.n < 2 THEN pr.n + 1 ELSE pr.n]

SnapInit ==
    [valid |-> FALSE, idx |-> 0, filled |-> FALSE, ordered |-> <<>>, after |-> <<>>,
     sp |-> SETPOINT_DEFAULT, hyst |-> HYSTERESIS_DEFAULT]

\* ------------------------------------------------------------------- Init
\* The C initialisers of the globals (lines 40-68); a float array in .bss is 0.
RamInit ==
    /\ wifiSsid = "" /\ apMode = FALSE
    /\ setpoint = SETPOINT_DEFAULT /\ hysteresis = HYSTERESIS_DEFAULT
    /\ lastTempRead = 0 /\ currentTemp = NAN
    /\ upPressed = FALSE /\ downPressed = FALSE
    /\ lastUpPress = 0 /\ lastDownPress = 0
    /\ state = ONTARGET /\ wakeBtnLast = FALSE /\ wakePressStart = 0
    /\ awakeStart = 0
    /\ tempHistory = [i \in 0..(NUM_POINTS - 1) |-> 0]
    /\ tempIndex = 0 /\ bufferFilled = FALSE

GhostInit ==
    /\ fifo = <<>> /\ nAppends = 0 /\ snap = SnapInit /\ joinAttempts = 0
    /\ wakeHeldSince = -1 /\ holdFired = FALSE
    /\ pair = [b \in {"up", "down"} |-> PairInit]

\* First power-up of a device whose store has never been written, in the
\* environment e.
InitIn(e) ==
    /\ env = e
    /\ pc = "boot" /\ millis = 0 /\ now = 0
    /\ prefs = EmptyPrefs /\ routes = <<>> /\ wifiConnected = FALSE
    /\ RamInit /\ GhostInit

\* ---------------------------------------------------------------- restart
\* ESP.restart(), a deep-sleep wake or a power cycle: RAM and the peripherals
\* start over, the store stays.  p is the store at that moment, s what snap
\* remembers of the RAM that is lost.
RestartWith(p, s) ==
    /\ pc' = "boot" /\ millis' = 0 /\ now' = 0 /\ UNCHANGED env
    /\ prefs' = p /\ routes' = <<>> /\ wifiConnected' = FALSE
    /\ wifiSsid' = "" /\ apMode' = FALSE
    /\ setpoint' = SETPOINT_DEFAULT /\ hysteresis' = HYSTERESIS_DEFAULT
    /\ lastTempRead' = 0 /\ currentTemp' = NAN
    /\ upPressed' = FALSE /\ downPressed' = FALSE
    /\ lastUpPress' = 0 /\ lastDownPress' = 0
    /\ state' = ONTARGET /\ wakeBtnLast' = FALSE /\ wakePressStart' = 0
    /\ awakeStart' = 0
    /\ tempHistory' = [i \in 0..(NUM_POINTS - 1) |-> 0]
    /\ tempIndex' = 0 /\ bufferFilled' = FALSE
    /\ joinAttempts' = 0 /\ wakeHeldSince' = -1 /\ holdFired' = FALSE
    /\ pair' = [b \in {"up", "down"} |-> PairInit]
    /\ snap' = IF pc \in {"boot", "hung"} THEN snap ELSE s
    /\ UNCHANGED <<fifo, nAppends>>

\* The RAM as it is now; `after` differs from `ordered` only when the restart
\* interrupts an append.
SnapNow ==
    [valid |-> TRUE, idx |-> tempIndex, filled |-> bufferFilled,
     ordered |-> handleDataTemps(tempHistory, tempIndex, bufferFilled),
     after |-> handleDataTemps(tempHistory, tempIndex, bufferFilled),
     sp |-> setpoint, hyst |-> hysteresis]

Restart(p) == RestartWith(p, SnapNow)

\* ------------------------------------------------------------------ setup
\* setup(), lines 506-539: start the display, load setpoint, hysteresis and
\* the history from the store.  A display that does not start hangs setup.
SetupInit ==
    /\ pc = "boot"
    /\ \E displayOk \in BOOLEAN :
         IF ~displayOk
         THEN /\ pc' = "hung"
              /\ UNCHANGED <<env, prefs, envVars, ramVars, ghostVars>>
         ELSE LET h == loadHistoryFromPrefs(prefs)
              IN  /\ pc' = "modeselect"
                  /\ millis' = millis + SETUP_DELAY
                  /\ setpoint' = Get(prefs, "setpoint", setpoint)
                  /\ hysteresis' = Get(prefs, "hysteresis", hysteresis)
                  /\ tempHistory' = h.hist
                  /\ tempIndex' = h.idx
                  /\ bufferFilled' = h.filled
                  /\ UNCHANGED <<env, prefs, now, routes, wifiConnected, wifiSsid, apMode,
                                 lastTempRead, currentTemp, upPressed, downPressed,
                                 lastUpPress, lastDownPress, state, wakeBtnLast,
                                 wakePressStart, awakeStart, ghostVars>>

\* setup(), lines 541-554, with startStaMode() and startApSetupMode():
\* choose the mode from the stored ssid and the outcome of the join.
\* server.on() appends to the handler chain; server.stop() leaves it alone.
SetupMode ==
    /\ pc = "modeselect"
    /\ \E joined \in BOOLEAN :
         LET ssid == Get(prefs, "ssid", "")
             m == bootMode(ssid, joined)
             took == IF ~m.attempt THEN 0 ELSE IF joined THEN 1 ELSE TIMEOUT_MS
         IN  /\ (ssid = "" => joined)
             /\ wifiSsid' = ssid
             /\ joinAttempts' = joinAttempts + (IF m.attempt THEN 1 ELSE 0)
             /\ apMode' = m.apMode
             /\ wifiConnected' = (m.attempt /\ joined /\ ~m.apMode)
             /\ routes' = routes \o (IF m.apMode THEN ApRoutes
                                     ELSE IF m.attempt /\ joined THEN StaRoutes ELSE <<>>)
             /\ millis' = millis + took
             /\ awakeStart' = millis + took
    /\ pc' = "loop"
    /\ snap' = SnapInit
    /\ UNCHANGED <<env, prefs, now, setpoint, hysteresis, lastTempRead, currentTemp,
                   upPressed, downPressed, lastUpPress, lastDownPress, state,
                   wakeBtnLast, wakePressStart, histVars,
                   fifo, nAppends, wakeHeldSince, holdFired, pair>>

\* ------------------------------------------------------------------- loop
\* loop(), lines 559-560: take now and let the server handle one request.
LoopBegin(req) ==
    /\ pc = "loop"
    /\ millis - awakeStart <= MaxAwake
    /\ LET handler == IF req.path = "none" THEN "none" ELSE Dispatch(routes, req)
           s == handleSet(req, setpoint, hysteresis)
       IN  IF handler = "handleApSave" /\ req.method = "POST"
           THEN Restart(Put(prefs, "ssid", req.ssid))
           ELSE /\ pc' = after("loop")
                /\ now' = millis
                /\ IF handler = "handleSet" /\ ~apMode
                   THEN /\ setpoint' = s.sp
                        /\ hysteresis' = s.hyst
                        /\ prefs' = IF s.changed
                                    THEN Put(Put(prefs, "setpoint", s.sp),
                                             "hysteresis", s.hyst)
                                    ELSE prefs
                   ELSE UNCHANGED <<setpoint, hysteresis, prefs>>
                /\ UNCHANGED <<env, millis, routes, wifiConnected, wifiSsid, apMode,
                               lastTempRead, currentTemp, upPressed, downPressed,
                               lastUpPress, lastDownPress, state, wakeBtnLast,
                               wakePressStart, awakeStart, histVars, ghostVars>>

HandleClient == \E req \in env.requests : LoopBegin(req)

\* loop(), lines 562-576: the wake button and its long press.
WakeButton(wakeNow) ==
    /\ pc = "wake"
    /\ LET start == wakePressStartNext(wakeNow, wakeBtnLast, now, wakePressStart)
           fire == longPress(wakeNow, now, start, apMode)
       IN  /\ wakePressStart' = start
           /\ wakeBtnLast' = wakeNow
           /\ apMode' = (apMode \/ fire)
           /\ wifiConnected' = (wifiConnected /\ ~fire)
           /\ routes' = IF fire THEN routes \o ApRoutes ELSE routes
           /\ wakeHeldSince' = IF ~wakeNow THEN -1
                               ELSE IF wakeHeldSince = -1 THEN now ELSE wakeHeldSince
           /\ holdFired' = (wakeNow /\ (holdFired \/ fire))
    /\ pc' = after("wake")
    /\ UNCHANGED <<env, prefs, millis, now, wifiSsid, setpoint, hysteresis, lastTempRead,
                   currentTemp, upPressed, downPressed, lastUpPress, lastDownPress,
                   state, awakeStart, histVars, fifo, nAppends, snap, joinAttempts, pair>>

PollWake == \E wakeNow \in env.wake : WakeButton(wakeNow)

\* loop(), lines 578-598: the two setpoint buttons.
SetpointButtons(upNow, downNow) ==
    /\ pc = "buttons"
    /\ LET upFire == buttonFires(upNow, upPressed, now, lastUpPress)
           sp1 == IF upFire THEN setpoint + SP_STEP ELSE setpoint
           downFire == buttonFires(downNow, downPressed, now, lastDownPress)
           sp2 == IF downFire THEN sp1 - SP_STEP ELSE sp1
       IN  /\ setpoint' = sp2
           /\ prefs' = IF upFire \/ downFire THEN Put(prefs, "setpoint", sp2) ELSE prefs
           /\ upPressed' = pressedNext(upNow, upPressed, upFire)
           /\ lastUpPress' = IF upFire THEN now ELSE lastUpPress
           /\ downPressed' = pressedNext(downNow, downPressed, downFire)
           /\ lastDownPress' = IF downFire THEN now ELSE lastDownPress
           /\ pair' = [b \in {"up", "down"} |->
                         IF b = "up" THEN PairNext(pair[b], upNow, upFire, now)
                         ELSE PairNext(pair[b], downNow, downFire, now)]
    /\ pc' = after("buttons")
    /\ UNCHANGED <<env, envVars, wifiSsid, apMode, hysteresis, lastTempRead, currentTemp,
                   state, wakeBtnLast, wakePressStart, awakeStart, histVars,
                   fifo, nAppends, snap, joinAttempts, wakeHeldSince, holdFired>>

PollButtons ==
    \E upNow \in (IF setpoint < SpMax THEN env.up ELSE {FALSE}) :
    \E downNow \in (IF setpoint > SpMin THEN env.down ELSE {FALSE}) :
        SetpointButtons(upNow, downNow)

\* loop(), lines 600-609: read the sensor once per TEMP_INTERVAL and append.
TempRead ==
    /\ pc = "sample"
    /\ IF sampleDue(apMode, now, lastTempRead)
       THEN \E t \in env.temps :
              LET a == addTemperature(tempHistory, tempIndex, bufferFilled, t)
              IN  /\ lastTempRead' = now
                  /\ currentTemp' = t
                  /\ tempHistory' = a.hist
                  /\ tempIndex' = a.idx
                  /\ bufferFilled' = a.filled
                  /\ prefs' = saveHistoryToPrefs(prefs, a.hist, a.idx, a.filled)
                  /\ fifo' = IF Len(fifo) < NUM_POINTS THEN Append(fifo, t)
                             ELSE Append(Tail(fifo), t)
                  /\ nAppends' = IF nAppends < 2 * NUM_POINTS THEN nAppends + 1
                                 ELSE nAppends
       ELSE UNCHANGED <<lastTempRead, currentTemp, histVars, prefs, fifo, nAppends>>
    /\ pc' = after("sample")
    /\ UNCHANGED <<env, envVars, wifiSsid, apMode, setpoint, hysteresis, upPressed,
                   downPressed, lastUpPress, lastDownPress, state, wakeBtnLast,
                   wakePressStart, awakeStart, snap, joinAttempts, wakeHeldSince,
                   holdFired, pair>>

\* loop(), lines 611-616: the thermostat decision, in normal mode only.
Thermostat ==
    /\ pc = "decide"
    /\ state' = IF ~apMode THEN decideState(currentTemp, setpoint, hysteresis) ELSE state
    /\ pc' = after("decide")
    /\ UNCHANGED <<env, prefs, envVars, wifiSsid, apMode, setpoint, hysteresis, lastTempRead,
                   currentTemp, upPressed, downPressed, lastUpPress, lastDownPress,
                   wakeBtnLast, wakePressStart, awakeStart, histVars, ghostVars>>

\* loop(), lines 618-623, with goToSleep(): sleep on the awake timeout, else
\* delay and start the next iteration.
SleepCheck ==
    /\ pc = "sleepcheck"
    /\ IF sleepDue(apMode, now, awakeStart)
       THEN /\ pc' = "asleep"
            /\ wifiConnected' = FALSE
            /\ UNCHANGED millis
       ELSE /\ pc' = after("sleepcheck")
            /\ \E dt \in env.steps : millis' = millis + dt
            /\ UNCHANGED wifiConnected
    /\ UNCHANGED <<env, prefs, now, routes, ramVars, ghostVars>>

\* esp_deep_sleep_start() returns only through a reboot on BTN_WAKE.
WakeUp ==
    /\ pc = "asleep"
    /\ Restart(prefs)

\* Power is cut and restored between two steps.
PowerCycle ==
    /\ pc \notin {"boot", "asleep"}
    /\ Restart(prefs)

Next ==
    \/ SetupInit
    \/ SetupMode
    \/ HandleClient
    \/ PollWake
    \/ PollButtons
    \/ TempRead
    \/ Thermostat
    \/ SleepCheck
    \/ WakeUp
    \/ PowerCycle

\* ------------------------------------------------------------ environments
\* Each specification runs the whole program and lets one group of inputs
\* vary; the other inputs are held at their idle value.
\* The history: every sensor value, restarts, no button is touched.
EnvHistory ==
    [requests |-> {NoRequest} \cup {r \in SaveRequests : r.method = "POST"},
     wake |-> {FALSE}, up |-> {FALSE}, down |-> {FALSE},
     temps |-> SensorTemps, steps |-> 1..MaxStep]
\* The setpoint buttons.
EnvButtons ==
    [requests |-> {NoRequest} \cup {r \in SaveRequests : r.ssid # ""},
     wake |-> {FALSE}, up |-> BOOLEAN, down |-> BOOLEAN,
     temps |-> {NAN}, steps |-> 1..MaxStep]
\* Modes: the wake button and every request.
EnvControl ==
    [requests |-> Requests,
     wake |-> BOOLEAN, up |-> {FALSE}, down |-> {FALSE},
     temps |-> {NAN}, steps |-> 1..MaxStep]

SpecHistory == InitIn(EnvHistory) /\ [][Next]_vars
SpecButtons == InitIn(EnvButtons) /\ [][Next]_vars
SpecControl == InitIn(EnvControl) /\ [][Next]_vars

\* ------------------------------------------------ the decision function alone
\* Inputs of decideState: temperatures around the band edges, the missing
\* sample, hysteresis values including zero and a negative one.
DecideTemps == {NAN} \cup (2020..2130)
DecideSetpoints == {2050, 2100}
DecideHysts == {-10, 0, 5, 10, 50, 55}

InitDecide ==
    /\ env = EnvHistory
    /\ pc = "decide" /\ millis = 0 /\ now = 0
    /\ prefs = EmptyPrefs /\ routes = <<>> /\ wifiConnected = FALSE
    /\ wifiSsid = "" /\ apMode = FALSE
    /\ setpoint \in DecideSetpoints /\ hysteresis \in DecideHysts
    /\ lastTempRead = 0 /\ currentTemp \in DecideTemps
    /\ upPressed = FALSE /\ downPressed = FALSE
    /\ lastUpPress = 0 /\ lastDownPress = 0
    /\ state = ONTARGET /\ wakeBtnLast = FALSE /\ wakePressStart = 0
    /\ awakeStart = 0
    /\ tempHistory = [i \in 0..(NUM_POINTS - 1) |-> 0]
    /\ tempIndex = 0 /\ bufferFilled = FALSE
    /\ GhostInit

NextDecide == Thermostat

SpecDecide == InitDecide /\ [][NextDecide]_vars

\* C1: for hyst > 0 decideState returns HEATING iff t < sp - hyst/2, COOLING
\* iff t > sp + hyst/2 and ONTARGET otherwise, both band edges included; for
\* the missing sample it returns ONTARGET whatever sp and hyst are.
DecideContract ==
    pc = "sleepcheck" =>
        IF currentTemp = NAN THEN state = ONTARGET
        ELSE hysteresis > 0 =>
               /\ state = HEATING <=> 2 * (setpoint - currentTemp) > hysteresis
               /\ state = COOLING <=> 2 * (currentTemp - setpoint) > hysteresis
               /\ state = ONTARGET <=> /\ 2 * (setpoint - currentTemp) <= hysteresis
                                       /\ 2 * (currentTemp - setpoint) <= hysteresis

\* A decision taken exactly on the lower band edge.
DecideContractWitness ==
    /\ pc = "sleepcheck" /\ hysteresis > 0 /\ currentTemp # NAN
    /\ 2 * (setpoint - currentTemp) = hysteresis
    /\ state = ONTARGET

\* C2 as written: with setpoint 21.0 and hysteresis 0.5 the decision is
\* ONTARGET at 20.6, ONTARGET at 20.74 and HEATING at 20.24.
DecideScenarioAsWritten ==
    (pc = "sleepcheck" /\ setpoint = 2100 /\ hysteresis = 50) =>
        /\ currentTemp = 2060 => state = ONTARGET
        /\ currentTemp = 2074 => state = ONTARGET
        /\ currentTemp = 2024 => state = HEATING

\* C2, amended: with setpoint 21.0 and hysteresis 0.5 the decision is HEATING
\* at 20.6, at 20.74 and at 20.24; the lower band edge is 20.75, where it is
\* ONTARGET.
DecideScenario ==
    (pc = "sleepcheck" /\ setpoint = 2100 /\ hysteresis = 50) =>
        /\ currentTemp = 2060 => state = HEATING
        /\ currentTemp = 2074 => state = HEATING
        /\ currentTemp = 2024 => state = HEATING
        /\ currentTemp = 2075 => state = ONTARGET

DecideScenarioWitness ==
    /\ pc = "sleepcheck" /\ setpoint = 2100 /\ hysteresis = 50
    /\ currentTemp = 2060 /\ state = HEATING

\* --------------------------------------------------- the boot-time load alone
\* Stores a device may boot with, written by any firmware: the blob absent,
\* too short, too long or of the expected size, and any index and flag.
Opt(S) == {<<>>} \cup {<<x>> : x \in S}
LoadBlobs ==
    UNION { [0..(len - 1) -> {NAN, 2060}] :
              len \in {NUM_POINTS - 1, NUM_POINTS, NUM_POINTS + 1} }
StoreOf(blob, idx, full) ==
    [k \in {x \in {"temps"} : blob # <<>>} \cup {x \in {"tIndex"} : idx # <<>>}
           \cup {x \in {"tFull"} : full # <<>>} |->
        IF k = "temps" THEN blob[1] ELSE IF k = "tIndex" THEN idx[1] ELSE full[1]]
LoadStores ==
    { StoreOf(b, i, f) :
        b \in Opt(LoadBlobs), i \in Opt(-1..(NUM_POINTS + 1)), f \in Opt(BOOLEAN) }

InitLoad ==
    /\ env = EnvHistory
    /\ pc = "boot" /\ millis = 0 /\ now = 0
    /\ prefs \in LoadStores /\ routes = <<>> /\ wifiConnected = FALSE
    /\ RamInit /\ GhostInit

NextLoad == SetupInit

SpecLoad == InitLoad /\ [][NextLoad]_vars

\* C5: when the stored blob is absent or its length is not the expected one,
\* the load leaves every slot missing, index 0 and filled false, whatever
\* index and flag are stored.
LoadResetsOnBadBlob ==
    (pc = "modeselect" /\ getBytesLength(prefs) # sizeofTempHistory) =>
        /\ \A i \in 0..(NUM_POINTS - 1) : tempHistory[i] = NAN
        /\ DOMAIN tempHistory = 0..(NUM_POINTS - 1)
        /\ tempIndex = 0
        /\ bufferFilled = FALSE

\* A load of a blob that is too long, stored with a valid index and the flag set.
LoadResetsWitness ==
    /\ pc = "modeselect"
    /\ getBytesLength(prefs) > sizeofTempHistory
    /\ Get(prefs, "tIndex", 0) = 1 /\ Get(prefs, "tFull", FALSE)
    /\ tempIndex = 0 /\ ~bufferFilled

\* ------------------------------------------------------------- the history
HistoryLoaded == pc \notin {"boot", "hung"}
OrderedRead == handleDataTemps(tempHistory, tempIndex, bufferFilled)

\* C3: counting appends from the empty history, after m < N appends the
\* ordered read of the status route is the m samples in insertion order;
\* after exactly N appends filled is true and index is 0; after N+k appends
\* (0 < k < N) the ordered read is the last N samples, oldest first.
RingBufferOrder ==
    HistoryLoaded =>
        /\ OrderedRead = fifo
        /\ nAppends < NUM_POINTS =>
              ~bufferFilled /\ tempIndex = nAppends /\ Len(fifo) = nAppends
        /\ nAppends = NUM_POINTS => bufferFilled /\ tempIndex = 0
        /\ (nAppends > NUM_POINTS /\ nAppends < 2 * NUM_POINTS) =>
              bufferFilled /\ tempIndex = nAppends - NUM_POINTS /\ Len(fifo) = NUM_POINTS

\* One append past the first wrap, with different samples at both ends.
RingBufferWitness ==
    /\ pc = "decide" /\ nAppends = NUM_POINTS + 1
    /\ bufferFilled /\ tempIndex = 1
    /\ fifo[1] # fifo[NUM_POINTS]

\* C4: the history loaded at boot has the index, the filled flag and the
\* ordered read the history had when the restart happened.
PersistenceRoundTrip ==
    (pc = "modeselect" /\ snap.valid) =>
        /\ tempIndex = snap.idx
        /\ bufferFilled = snap.filled
        /\ OrderedRead = snap.ordered

\* A wrapped history loaded back after a restart.
RoundTripWitness ==
    /\ pc = "modeselect" /\ snap.valid
    /\ snap.filled /\ snap.idx > 0
    /\ snap.ordered[1] # snap.ordered[NUM_POINTS]
    /\ OrderedRead = snap.ordered

\* ------------------------------------------------------------ the buttons
\* C6: two rising edges of a button less than DEBOUNCE_MS apart give exactly
\* one adjust event in total, however long the second press is held; two
\* rising edges more than DEBOUNCE_MS apart give two.
DebounceOneEvent ==
    \A b \in {"up", "down"} :
        /\ pair[b].close => pair[b].n = 1
        /\ ~pair[b].missed

\* ---------------------------------------------------------------- modes
\* C7: a poll in normal mode switches to provisioning exactly when the wake
\* button is held and has been held, at every poll of this boot since the one
\* that first saw it pressed, for LONG_PRESS_MS or more; a hold switches at
\* most once; the time of an earlier press does not count.
LongPressSwitch ==
    [][(pc = "wake" /\ pc' = "buttons") =>
         LET fired == ~apMode /\ apMode'
             held == wakeHeldSince' # -1
         IN  /\ fired <=> (~apMode /\ held /\ now - wakeHeldSince' >= LONG_PRESS_MS)
             /\ fired => ~holdFired
             /\ wakeBtnLast' = held
             /\ held => wakePressStart' = wakeHeldSince']_vars

\* The switch fired in a hold that began after the first poll of the boot.
LongPressWitness ==
    /\ pc = "buttons" /\ holdFired /\ apMode /\ wifiSsid # ""
    /\ wakeHeldSince > awakeStart
    /\ now - wakeHeldSince = LONG_PRESS_MS

\* C8: setup ends in provisioning without a join when the stored ssid is
\* empty; otherwise it makes one join and ends in normal mode when the join
\* succeeds and in provisioning when it fails; the routes installed are those
\* of the mode it ends in, and mode selection always ends.
BootModeSelection ==
    /\ [][(pc = "modeselect" /\ pc' = "loop") =>
            LET ssid == Get(prefs, "ssid", "")
            IN  /\ ssid = "" => (apMode' /\ joinAttempts' = 0)
                /\ ssid # "" => (joinAttempts' = 1 /\ (apMode' <=> ~wifiConnected'))
                /\ apMode' => ~wifiConnected'
                /\ routes' = IF apMode' THEN ApRoutes ELSE StaRoutes]_vars
    /\ [][pc = "modeselect" => pc' \in {"loop", "boot"}]_vars

\* Setup fell back to provisioning after a failed join.
BootModeWitness ==
    /\ pc = "loop" /\ wifiSsid # "" /\ apMode
    /\ joinAttempts = 1 /\ routes = ApRoutes

SleepOnlyOnTimeout ==
    [][/\ (pc = "sleepcheck" /\ pc' \in {"loop", "asleep"}) =>
            (pc' = "asleep" <=> (~apMode /\ now - awakeStart > AWAKE_DURATION_MS))
       /\ (pc' = "asleep" /\ pc # "asleep") => pc = "sleepcheck"
       /\ apMode => pc' # "asleep"]_vars

\* Deep sleep entered on the timeout.
SleepWitness ==
    /\ pc = "asleep" /\ ~apMode /\ now - awakeStart > AWAKE_DURATION_MS

\* ------------------------------------------------- the stored configuration
\* Configuration: the UP button and every request, with restarts.
EnvConfig ==
    [requests |-> Requests,
     wake |-> {FALSE}, up |-> BOOLEAN, down |-> {FALSE},
     temps |-> {NAN}, steps |-> 1..MaxStep]

SpecConfig == InitIn(EnvConfig) /\ [][Next]_vars

\* C11: once setup has loaded them, the stored setpoint and hysteresis (or,
\* for a key never written, its default) equal the ones in memory in every
\* state, so at every decision step and at sleep entry; and the values setup
\* loads after a restart equal those in effect when the restart happened.
ConfigPersisted ==
    /\ pc \notin {"boot", "hung"} =>
        /\ Get(prefs, "setpoint", SETPOINT_DEFAULT) = setpoint
        /\ Get(prefs, "hysteresis", HYSTERESIS_DEFAULT) = hysteresis
    /\ (pc = "modeselect" /\ snap.valid) =>
        /\ setpoint = snap.sp
        /\ hysteresis = snap.hyst

\* A restart after a button changed the setpoint and a request the hysteresis.
ConfigPersistedWitness ==
    /\ pc = "modeselect" /\ snap.valid
    /\ snap.sp = SETPOINT_DEFAULT + SP_STEP /\ snap.hyst = HYST_MIN
    /\ setpoint = snap.sp /\ hysteresis = snap.hyst

\* ------------------------------------------------------------ route tables
Handlers(rs) == {rs[i][3] : i \in 1..Len(rs)}
Installed(set) == \E i \in 1..Len(set) : set[i][3] \in Handlers(routes)

\* C12: the routes of normal mode and those of provisioning mode are never
\* installed at the same time:  after the long-press switch the server holds
\* the provisioning routes only.
RouteSetsExclusive == ~(Installed(StaRoutes) /\ Installed(ApRoutes))

\* ------------------------------------------------- remote effects and mode
StoredConfig(p) ==
    <<Has(p, "setpoint"), Get(p, "setpoint", 0), Has(p, "hysteresis"), Get(p, "hysteresis", 0)>>
StoredSsid(p) == <<Has(p, "ssid"), Get(p, "ssid", "")>>

\* C13: a request handled by loop() changes setpoint, hysteresis or their
\* stored copies only in normal mode, and a set request handled in
\* provisioning mode changes nothing; the stored ssid is written, and the
\* restart of a save request happens, only while the mode is provisioning.
RemoteEffectsGated ==
    [][\A req \in Requests : LoopBegin(req) =>
         /\ (StoredConfig(prefs') # StoredConfig(prefs)
                \/ (pc' # "boot" /\ <<setpoint', hysteresis'>> # <<setpoint, hysteresis>>))
                => ~apMode
         /\ (req \in SetRequests /\ apMode) =>
                /\ setpoint' = setpoint /\ hysteresis' = hysteresis
                /\ prefs' = prefs /\ pc' = "wake"
         /\ (StoredSsid(prefs') # StoredSsid(prefs) \/ pc' = "boot") =>
                /\ apMode
                /\ req.path = "/save" /\ req.method = "POST"]_vars

\* A set request was accepted in normal mode, and in a later provisioning
\* mode a save request wrote the ssid and restarted.
RemoteEffectsWitness ==
    /\ pc = "boot" /\ snap.valid
    /\ Get(prefs, "ssid", "") = "home"
    /\ Get(prefs, "hysteresis", 0) = HYST_MIN
    /\ snap.hyst = HYST_MIN

\* ------------------------------------------------------- the index at boot
\* C14: the write index is inside the buffer, 0 <= tempIndex < NUM_POINTS,
\* also right after setup has loaded a blob of the right size with any stored
\* index.
IndexInBuffer == tempIndex >= 0 /\ tempIndex < NUM_POINTS

\* ------------------------------------------------ the order inside loop()
\* Thermostat: sensor readings, the UP button and set requests together.
EnvThermo ==
    [requests |-> {NoRequest} \cup {r \in SetRequests : r.hasSp # r.hasH}
                    \cup {r \in SaveRequests : r.method = "POST" /\ r.ssid # ""},
     wake |-> {FALSE}, up |-> BOOLEAN, down |-> {FALSE},
     temps |-> SensorTemps \ {NAN}, steps |-> 1..MaxStep]

SpecThermo == InitIn(EnvThermo) /\ [][Next]_vars

LoopSteps == {"loop", "wake", "buttons", "sample", "decide", "sleepcheck"}

\* What each part of the iteration is: the only step that presses a setpoint
\* button is the one leaving "buttons", the only one that takes a sample
\* the one leaving "sample", and so on.
StepRoles ==
    (pc \in LoopSteps /\ pc' # "boot") =>
        /\ <<upPressed', downPressed', lastUpPress', lastDownPress'>>
              # <<upPressed, downPressed, lastUpPress, lastDownPress>> => pc = "buttons"
        /\ <<lastTempRead', currentTemp', tempIndex'>>
              # <<lastTempRead, currentTemp, tempIndex>> => pc = "sample"
        /\ state' # state => pc = "decide"
        /\ pc' = "asleep" => pc = "sleepcheck"

DecisionCurrent ==
    (~apMode /\ pc \in {"sleepcheck", "loop", "asleep"}) =>
        /\ state = decideState(currentTemp, setpoint, hysteresis)
        /\ lastTempRead = 0 => (currentTemp = NAN /\ state = ONTARGET)
        /\ lastTempRead > 0 => (fifo # <<>> /\ currentTemp = fifo[Len(fifo)])

\* The sample 21.3 was taken in an earlier iteration; the UP button has
\* raised the setpoint to 21.5 and the state is ONTARGET for it.
DecisionCurrentWitness ==
    /\ pc = "loop" /\ ~apMode
    /\ lastTempRead > 0 /\ lastTempRead < now
    /\ currentTemp = 2130 /\ setpoint = SETPOINT_DEFAULT + SP_STEP
    /\ state = ONTARGET

\* --------------------------------------------- no sampling in provisioning
StoredHistory(p) ==
    <<Has(p, "temps"), Get(p, "temps", <<>>), Has(p, "tIndex"), Get(p, "tIndex", 0),
      Has(p, "tFull"), Get(p, "tFull", FALSE)>>

\* C17: a step taken in provisioning mode leaves the stored history as it is
\* and, unless it restarts the device, leaves the buffer, the index, the
\* filled flag and the last sample as they are: nothing is sampled or
\* appended.
NoSamplingInProvisioning ==
    [][apMode =>
         /\ StoredHistory(prefs') = StoredHistory(prefs)
         /\ UNCHANGED <<fifo, nAppends>>
         /\ pc' # "boot" =>
               UNCHANGED <<tempHistory, tempIndex, bufferFilled, lastTempRead,
                           currentTemp>>]_vars

\* Provisioning mode entered by a long press after samples were taken: the
\* sampling step has run with the interval elapsed and has taken no sample.
NoSamplingWitness ==
    /\ pc = "decide" /\ apMode /\ holdFired
    /\ nAppends > 0 /\ now - lastTempRead >= TEMP_INTERVAL

\* ------------------------------------------ setpoint buttons and the mode
\* C18: in provisioning mode the setpoint-button step leaves the setpoint and
\* its stored copy as they are.
NoAdjustInProvisioning ==
    [][(apMode /\ pc = "buttons" /\ pc' # "boot") =>
          /\ setpoint' = setpoint
          /\ <<Has(prefs', "setpoint"), Get(prefs', "setpoint", 0)>>
                = <<Has(prefs, "setpoint"), Get(prefs, "setpoint", 0)>>]_vars

\* ------------------------------------------- power loss during an append
\* saveHistoryToPrefs() cut short: the store after the first k of its three
\* writes (lines 112-114).
saveHistoryPrefix(p, hist, idx, filled, k) ==
    LET p1 == IF k >= 1 THEN Put(p, "temps", hist) ELSE p
        p2 == IF k >= 2 THEN Put(p1, "tIndex", idx) ELSE p1
    IN  IF k >= 3 THEN Put(p2, "tFull", filled) ELSE p2

\* loop(), lines 600-609, with addTemperature(): power is lost while a sample
\* is being appended, after k of the three store writes.
TempReadTorn ==
    /\ pc = "sample"
    /\ sampleDue(apMode, now, lastTempRead)
    /\ \E t \in env.temps, k \in 0..2 :
         LET a == addTemperature(tempHistory, tempIndex, bufferFilled, t)
         IN  RestartWith(saveHistoryPrefix(prefs, a.hist, a.idx, a.filled, k),
                         [SnapNow EXCEPT !.after = handleDataTemps(a.hist, a.idx, a.filled)])

NextTorn == Next \/ TempReadTorn

\* Two sensor readings that can be told apart, and the save request that
\* takes the device into normal mode.
EnvTorn ==
    [requests |-> {NoRequest} \cup {r \in SaveRequests : r.method = "POST" /\ r.ssid # ""},
     wake |-> {FALSE}, up |-> {FALSE}, down |-> {FALSE},
     temps |-> SensorTemps \ {NAN}, steps |-> 1..MaxStep]

SpecTorn == InitIn(EnvTorn) /\ [][NextTorn]_vars

\* C19: after a restart, also one that interrupts an append between its store
\* writes, the ordered read of the loaded history is the one from just before
\* the append or the one from just after it, and a history that the append
\* made full does not load as empty.
TornAppendAtomic ==
    (pc = "modeselect" /\ snap.valid) =>
        /\ OrderedRead \in {snap.ordered, snap.after}
        /\ Len(snap.after) = NUM_POINTS => OrderedRead # <<>>

\* ------------------------------------- long press and timeout in one iteration
\* C20: when, in normal mode, the wake-button poll of an iteration finds the
\* button held for LONG_PRESS_MS or longer and the awake timeout has passed
\* too, the device switches to provisioning mode; and in provisioning mode it
\* does not go to sleep and stays in that mode until a restart, so it sleeps
\* neither in that iteration nor in a later one of the boot.
SwitchBeatsSleep ==
    [][/\ (/\ pc = "wake" /\ pc' # "boot" /\ ~apMode
           /\ now - awakeStart > AWAKE_DURATION_MS
           /\ wakeHeldSince' # -1 /\ now - wakeHeldSince' >= LONG_PRESS_MS) => apMode'
       /\ apMode => (pc' # "asleep" /\ (apMode' \/ pc' = "boot"))]_vars

\* The sleep test of the iteration whose poll reached the long-press
\* threshold, with the awake timeout passed: the device is in provisioning
\* mode.
SwitchBeatsSleepWitness ==
    /\ pc = "sleepcheck" /\ apMode /\ holdFired /\ wifiSsid # ""
    /\ now - wakeHeldSince = LONG_PRESS_MS
    /\ now - awakeStart > AWAKE_DURATION_MS

====
